---- MODULE Spec2Model ----
(***************************************************************************)
(* Model of the pcf_parser pattern-file codec (src/src/pattern.rs), of the *)
(* `write` command of the pcf tool (src/src/bin/pcf.rs), of the round-trip *)
(* program (src/src/main.rs) and of the files they read and write.         *)
(*                                                                         *)
(* A byte is a number in 0..255.  A Rust String is the sequence of its     *)
(* UTF-8 bytes, a Vec<T> is a sequence whose element i (0-based in the     *)
(* source) is element i+1 here, a fixed-size array [T; n] is a function    *)
(* on 0..n-1, and an i32 is an integer in I32Min..I32Max.                  *)
(***************************************************************************)
EXTENDS Integers, Sequences, FiniteSets, TLC

\* ------------------------------------------------------------------------
\* Program constants
\* ------------------------------------------------------------------------
FieldLen == 10
Rows == 18
ExtraCols == 20
ClkLen == 65
I32Max == 2147483647
I32Min == (0 - I32Max) - 1

\* ------------------------------------------------------------------------
\* Bounds of the model
\* ------------------------------------------------------------------------
\* largest pattern_file_length of the sample records and files of Init
MaxLen == 0
\* largest number of bytes found after the matrix of a file
MaxTail == 2

\* ------------------------------------------------------------------------
\* Text: bytes of the strings the code names
\* ------------------------------------------------------------------------
SP == 32
Spaces(n) == [i \in 1..n |-> SP]
StrTrue == <<84, 114, 117, 101>>
StrFalse == <<70, 97, 108, 115, 101>>
StrLowerTrue == <<116, 114, 117, 101>>
Replacement == <<239, 191, 189>>

\* ------------------------------------------------------------------------
\* String::from_utf8_lossy: every maximal invalid part becomes U+FFFD
\* ------------------------------------------------------------------------
SafeGet(b, i) == IF i >= 1 /\ i <= Len(b) THEN b[i] ELSE 0

IsCont(x) == x >= 128 /\ x <= 191

Utf8CharWidth(x) ==
    IF x < 128 THEN 1
    ELSE IF x >= 194 /\ x <= 223 THEN 2
    ELSE IF x >= 224 /\ x <= 239 THEN 3
    ELSE IF x >= 240 /\ x <= 244 THEN 4
    ELSE 0

Second3Ok(x, y) ==
    \/ x = 224 /\ y >= 160 /\ y <= 191
    \/ x >= 225 /\ x <= 236 /\ y >= 128 /\ y <= 191
    \/ x = 237 /\ y >= 128 /\ y <= 159
    \/ x >= 238 /\ x <= 239 /\ y >= 128 /\ y <= 191

Second4Ok(x, y) ==
    \/ x = 240 /\ y >= 144 /\ y <= 191
    \/ x >= 241 /\ x <= 243 /\ y >= 128 /\ y <= 191
    \/ x = 244 /\ y >= 128 /\ y <= 143

\* the chunk that starts at byte i: whether it is a character, and its length
Utf8Chunk(b, i) ==
    LET x == b[i]
        w == Utf8CharWidth(x)
    IN  IF w = 1 THEN [ok |-> TRUE, n |-> 1]
        ELSE IF w = 2 THEN
            IF IsCont(SafeGet(b, i + 1)) THEN [ok |-> TRUE, n |-> 2]
            ELSE [ok |-> FALSE, n |-> 1]
        ELSE IF w = 3 THEN
            IF ~Second3Ok(x, SafeGet(b, i + 1)) THEN [ok |-> FALSE, n |-> 1]
            ELSE IF ~IsCont(SafeGet(b, i + 2)) THEN [ok |-> FALSE, n |-> 2]
            ELSE [ok |-> TRUE, n |-> 3]
        ELSE IF w = 4 THEN
            IF ~Second4Ok(x, SafeGet(b, i + 1)) THEN [ok |-> FALSE, n |-> 1]
            ELSE IF ~IsCont(SafeGet(b, i + 2)) THEN [ok |-> FALSE, n |-> 2]
            ELSE IF ~IsCont(SafeGet(b, i + 3)) THEN [ok |-> FALSE, n |-> 3]
            ELSE [ok |-> TRUE, n |-> 4]
        ELSE [ok |-> FALSE, n |-> 1]

RECURSIVE LossyFrom(_, _)
LossyFrom(b, i) ==
    IF i > Len(b) THEN << >>
    ELSE LET c == Utf8Chunk(b, i)
         IN  (IF c.ok THEN SubSeq(b, i, i + c.n - 1) ELSE Replacement)
                \o LossyFrom(b, i + c.n)

\* (bytes below 128 are characters of their own: such a b is its own text)
FromUtf8Lossy(b) ==
    IF \A i \in 1..Len(b) : b[i] < 128 THEN b ELSE LossyFrom(b, 1)

IsUtf8(b) == FromUtf8Lossy(b) = b

\* ------------------------------------------------------------------------
\* str::trim_end: drops the trailing characters that are White_Space
\* ------------------------------------------------------------------------
\* length in bytes of the white-space character that ends s, 0 if none does
TrailingWhitespace(s) ==
    LET n == Len(s)
        z == SafeGet(s, n)
        y == SafeGet(s, n - 1)
        x == SafeGet(s, n - 2)
    IN  IF n = 0 THEN 0
        ELSE IF (z >= 9 /\ z <= 13) \/ z = SP THEN 1
        ELSE IF y = 194 /\ (z = 133 \/ z = 160) THEN 2
        ELSE IF x = 225 /\ y = 154 /\ z = 128 THEN 3
        ELSE IF x = 226 /\ y = 128 /\ ((z >= 128 /\ z <= 138) \/ z = 168 \/ z = 169 \/ z = 175) THEN 3
        ELSE IF x = 226 /\ y = 129 /\ z = 159 THEN 3
        ELSE IF x = 227 /\ y = 128 /\ z = 128 THEN 3
        ELSE 0

RECURSIVE TrimEnd(_)
TrimEnd(s) ==
    LET k == TrailingWhitespace(s)
    IN  IF k = 0 THEN s ELSE TrimEnd(SubSeq(s, 1, Len(s) - k))

\* ------------------------------------------------------------------------
\* i32: to_string and str::parse::<i32>
\* ------------------------------------------------------------------------
IsI32(v) == v \in Int /\ v >= I32Min /\ v <= I32Max

\* decimal digits of -n, for n <= 0
RECURSIVE NegDigits(_)
NegDigits(n) ==
    IF n > -10 THEN <<48 - n>>
    ELSE LET d == (10 - (n % 10)) % 10
         IN  NegDigits((n + d) \div 10) \o <<48 + d>>

\* to_string with a '+' ahead of a number that is not negative
I32ToStringSigned(v) == IF v < 0 THEN <<45>> \o NegDigits(v) ELSE <<43>> \o NegDigits(0 - v)

I32ToString(v) == IF v < 0 THEN <<45>> \o NegDigits(v) ELSE NegDigits(0 - v)

IsDigit(x) == x >= 48 /\ x <= 57

\* accumulates the digits of s from position i on the negative side, as the
\* range of i32 has one more negative number; "overflow" is [ok |-> FALSE]
RECURSIVE NegAccum(_, _, _)
NegAccum(s, i, acc) ==
    IF i > Len(s) THEN [ok |-> TRUE, val |-> acc]
    ELSE LET d == s[i] - 48
         IN  IF ~IsDigit(s[i]) THEN [ok |-> FALSE, val |-> 0]
             ELSE IF acc < -214748364 \/ (acc = -214748364 /\ d > 8)
                    THEN [ok |-> FALSE, val |-> 0]
             ELSE NegAccum(s, i + 1, acc * 10 - d)

ParseI32(s) ==
    LET signed == Len(s) >= 1 /\ (s[1] = 43 \/ s[1] = 45)
        neg == Len(s) >= 1 /\ s[1] = 45
        from == IF signed THEN 2 ELSE 1
        r == NegAccum(s, from, 0)
    IN  IF from > Len(s) THEN [ok |-> FALSE, val |-> 0]
        ELSE IF ~r.ok THEN [ok |-> FALSE, val |-> 0]
        ELSE IF neg THEN [ok |-> TRUE, val |-> r.val]
        ELSE IF r.val = I32Min THEN [ok |-> FALSE, val |-> 0]
        ELSE [ok |-> TRUE, val |-> 0 - r.val]

\* .parse().unwrap_or(1)
ParseOrOne(s) == LET r == ParseI32(s) IN IF r.ok THEN r.val ELSE 1

\* .parse().unwrap_or(0)
ParseOrZero(s) == LET r == ParseI32(s) IN IF r.ok THEN r.val ELSE 0

\* ------------------------------------------------------------------------
\* PatternFileData
\* ------------------------------------------------------------------------
Channels == 0..7
Slots == 0..8

\* element i (0-based, as in the source) of the Vec v
At(v, i) == v[i + 1]

RECURSIVE Flatten(_)
Flatten(ss) == IF ss = << >> THEN << >> ELSE Head(ss) \o Flatten(Tail(ss))

\* ------------------------------------------------------------------------
\* write_pcf_file
\* ------------------------------------------------------------------------
\* write_fixed with bytes.resize(len, 0): pads with NUL bytes
write_fixed_nul(val, len) ==
    IF Len(val) >= len THEN SubSeq(val, 1, len)
    ELSE val \o [i \in 1..(len - Len(val)) |-> 0]

\* the bytes write_fixed hands to the writer
write_fixed(val, len) ==
    IF Len(val) >= len THEN SubSeq(val, 1, len)
    ELSE val \o Spaces(len - Len(val))

\* flag_str with "1" and "0" for the two values
flag_str_numeric(data) == IF data.compiled_flag THEN <<49>> ELSE <<48>>

flag_str(data) == IF data.compiled_flag THEN StrTrue ELSE StrFalse

header(data) == flag_str(data) \o <<SP>> \o data.version

\* the order of the nine slots of vtime_reqd, cycle_time and pulse_time
SlotOrder == <<8, 0, 1, 2, 3, 4, 5, 6, 7>>

WriteSlots(arr) == [j \in 1..9 |-> write_fixed(arr[SlotOrder[j]], FieldLen)]

WriteInts(arr) == [j \in 1..8 |-> write_fixed(I32ToString(arr[j - 1]), FieldLen)]

\* the fields written before the length of clk_sources is asserted
FieldsBeforeAssert(data) ==
    << write_fixed(header(data), FieldLen),
       write_fixed(I32ToString(data.source_combo_index), FieldLen) >>
    \o WriteInts(data.pclk_source_indices)
    \o WriteSlots(data.vtime_reqd)
    \o WriteSlots(data.cycle_time)
    \o WriteSlots(data.pulse_time)

\* WriteClkSources with the loop over 0..63
WriteClkSourcesFromZero(data) ==
    [i \in 1..(ClkLen - 1) |-> write_fixed(At(data.clk_sources, i - 1), FieldLen)]

\* clk_sources[1..=64]
WriteClkSources(data) ==
    [i \in 1..(ClkLen - 1) |-> write_fixed(At(data.clk_sources, i), FieldLen)]

\* WriteAddrs with loop_counts written ahead of end_addrs
WriteAddrsSwapped(data) ==
    [j \in 1..24 |->
        LET i == (j - 1) \div 3
            f == (j - 1) % 3
        IN  write_fixed(I32ToString(IF f = 0 THEN data.start_addrs[i]
                                    ELSE IF f = 1 THEN data.loop_counts[i]
                                    ELSE data.end_addrs[i]), FieldLen)]

\* the 8 x (start, end, loop) fields
WriteAddrs(data) ==
    [j \in 1..24 |->
        LET i == (j - 1) \div 3
            f == (j - 1) % 3
        IN  write_fixed(I32ToString(IF f = 0 THEN data.start_addrs[i]
                                    ELSE IF f = 1 THEN data.end_addrs[i]
                                    ELSE data.loop_counts[i]), FieldLen)]

\* the fields written once the assertion has passed
FieldsAfterAssert(data) ==
    WriteClkSources(data)
    \o WriteAddrs(data)
    \o << write_fixed(I32ToString(data.pattern_file_length), FieldLen) >>

\* pattern_data[bit][col] is in bounds
InBounds(pd, bit, col) == bit < Len(pd) /\ col < Len(At(pd, bit))

MaxRowLen(pd) ==
    IF pd = << >> THEN 0
    ELSE CHOOSE m \in {Len(pd[r]) : r \in 1..Len(pd)} :
            \A r \in 1..Len(pd) : Len(pd[r]) <= m

\* the number of matrix bytes written before the first index out of bounds,
\* when the loop runs over columns 0..cols-1 (cols < 0 stands for a column
\* count no matrix reaches: a negative i32 cast to usize)
MatrixWritten(pd, cols) ==
    LET last == IF cols < 0 \/ cols > MaxRowLen(pd) + 1
                  THEN MaxRowLen(pd) + 1 ELSE cols
        bad == {k \in 0..(Rows * last - 1) : ~InBounds(pd, k % Rows, k \div Rows)}
    IN  IF bad = {} THEN Rows * last
        ELSE CHOOSE k \in bad : \A j \in bad : k <= j

MatrixBytes(pd, n) == [k \in 1..n |-> At(At(pd, (k - 1) % Rows), (k - 1) \div Rows)]

\* assert_eq!(data.clk_sources.len(), 65) with only too few entries refused
ClkSourcesAtLeast(data) == Len(data.clk_sources) >= ClkLen

\* assert_eq!(data.clk_sources.len(), 65, ...) passes
ClkSourcesAsserted(data) == Len(data.clk_sources) = ClkLen

\* data.pattern_file_length + 20 is no i32
Overflows(data) == data.pattern_file_length > I32Max - ExtraCols

\* what one call issues to the writer and how it ends.  checks: the build
\* checks integer overflow (debug) or wraps (release).
write_pcf_file(data, checks) ==
    LET before == Flatten(FieldsBeforeAssert(data))
        fixed == before \o Flatten(FieldsAfterAssert(data))
        L == data.pattern_file_length
        overflow == Overflows(data)
        cols == IF overflow THEN -1 ELSE L + ExtraCols
        n == MatrixWritten(data.pattern_data, cols)
    IN  IF ~ClkSourcesAsserted(data)
          THEN [status |-> "Panic", issued |-> before]
        ELSE IF overflow /\ checks
          THEN [status |-> "Panic", issued |-> fixed]
        ELSE IF cols < 0 \/ n < Rows * cols
          THEN [status |-> "Panic",
                issued |-> fixed \o MatrixBytes(data.pattern_data, n)]
        ELSE [status |-> "Ok",
              issued |-> fixed \o MatrixBytes(data.pattern_data, n)]

\* ------------------------------------------------------------------------
\* parse_pcf_file
\* ------------------------------------------------------------------------
\* the number of 10-byte fields ahead of the matrix
HeaderFields == 2 + 8 + 3 * 9 + (ClkLen - 1) + 3 * 8 + 1

\* to_lowercase, on the characters of the model's texts
ToLowercase(s) == [i \in 1..Len(s) |-> IF s[i] >= 65 /\ s[i] <= 90 THEN s[i] + 32 ELSE s[i]]

\* position of the first space of s, 0 if it has none
FirstSpace(s) ==
    IF \E i \in 1..Len(s) : s[i] = SP
      THEN CHOOSE i \in 1..Len(s) : s[i] = SP /\ \A j \in 1..(i - 1) : s[j] # SP
      ELSE 0

\* the split at the last space of s
SplitAtLastSpace(s) ==
    IF \E i \in 1..Len(s) : s[i] = SP
      THEN LET i == CHOOSE i \in 1..Len(s) : s[i] = SP /\ \A j \in (i + 1)..Len(s) : s[j] # SP
           IN  <<SubSeq(s, 1, i - 1), SubSeq(s, i + 1, Len(s))>>
      ELSE <<s>>

\* compiled.splitn(2, ' ')
SplitN2(s) ==
    LET i == FirstSpace(s)
    IN  IF i = 0 THEN <<s>> ELSE <<SubSeq(s, 1, i - 1), SubSeq(s, i + 1, Len(s))>>

\* read_fixed without trim_end
read_fixed_untrimmed(bytes, pos, len) == FromUtf8Lossy(SubSeq(bytes, pos + 1, pos + len))

\* the text of the len bytes that start at offset pos (0-based); the caller
\* has checked that the source holds them
read_fixed(bytes, pos, len) == TrimEnd(FromUtf8Lossy(SubSeq(bytes, pos + 1, pos + len)))

\* field k (0-based) of the header
Field(bytes, k) == read_fixed(bytes, FieldLen * k, FieldLen)

\* ReadSlots with the nine slots read in index order
ReadSlotsInOrder(bytes, first) == [i \in Slots |-> Field(bytes, first + i)]

\* the nine slots of a timing array, whose fields start at field first:
\* slot 8, then slots 0..7
ReadSlots(bytes, first) ==
    [i \in Slots |-> IF i = 8 THEN Field(bytes, first) ELSE Field(bytes, first + 1 + i)]

\* ReadMatrix with the bytes of the source taken row after row
ReadMatrixRowMajor(bytes, cols) ==
    [r \in 1..Rows |->
        [c \in 1..cols |->
            bytes[FieldLen * HeaderFields + cols * (r - 1) + (c - 1) + 1]]]

\* pattern_data[bit][col] = reader.read_u8(), col by col and in it bit by bit
ReadMatrix(bytes, cols) ==
    [r \in 1..Rows |->
        [c \in 1..cols |->
            bytes[FieldLen * HeaderFields + Rows * (c - 1) + (r - 1) + 1]]]

ParseHeaderRecord(bytes, cols) ==
    LET parts == SplitN2(Field(bytes, 0))
    IN  [ compiled_flag |-> ToLowercase(parts[1]) = StrLowerTrue,
          version |-> IF Len(parts) > 1 THEN parts[2] ELSE << >>,
          source_combo_index |-> ParseOrZero(Field(bytes, 1)),
          pclk_source_indices |-> [i \in Channels |-> ParseOrZero(Field(bytes, 2 + i))],
          vtime_reqd |-> ReadSlots(bytes, 10),
          cycle_time |-> ReadSlots(bytes, 19),
          pulse_time |-> ReadSlots(bytes, 28),
          clk_sources |-> [j \in 1..ClkLen |-> IF j = 1 THEN << >> ELSE Field(bytes, 37 + (j - 2))],
          start_addrs |-> [i \in Channels |-> ParseOrZero(Field(bytes, 101 + 3 * i))],
          end_addrs |-> [i \in Channels |-> ParseOrZero(Field(bytes, 102 + 3 * i))],
          loop_counts |-> [i \in Channels |-> ParseOrZero(Field(bytes, 103 + 3 * i))],
          pattern_file_length |-> ParseOrZero(Field(bytes, 125)),
          pattern_data |-> ReadMatrix(bytes, cols) ]

NoRecord == [none |-> TRUE]

\* parse_pcf_file with an error for a source that goes on after the matrix
parse_pcf_file_exact(f) ==
    LET bytes == f.bytes
        L == ParseOrZero(Field(bytes, HeaderFields - 1))
        overflow == L > I32Max - ExtraCols
        cols == IF overflow THEN -1 ELSE L + ExtraCols
    IN  IF ~f.exists \/ Len(bytes) < FieldLen * HeaderFields
          THEN [status |-> "Err", rec |-> NoRecord]
        ELSE IF cols < 0 THEN [status |-> "Panic", rec |-> NoRecord]
        ELSE IF Len(bytes) # FieldLen * HeaderFields + Rows * cols
          THEN [status |-> "Err", rec |-> NoRecord]
        ELSE [status |-> "Ok", rec |-> ParseHeaderRecord(bytes, cols)]

\* the result of decoding a file: f.exists, f.bytes
parse_pcf_file(f) ==
    LET bytes == f.bytes
        short == {k \in 0..(HeaderFields - 1) : FieldLen * (k + 1) > Len(bytes)}
        L == ParseOrZero(Field(bytes, HeaderFields - 1))
        overflow == L > I32Max - ExtraCols
        cols == IF overflow THEN -1 ELSE L + ExtraCols
    IN  IF ~f.exists THEN [status |-> "Err", rec |-> NoRecord]
        ELSE IF short # {} THEN [status |-> "Err", rec |-> NoRecord]
        ELSE IF cols < 0 THEN [status |-> "Panic", rec |-> NoRecord]
        ELSE IF Len(bytes) < FieldLen * HeaderFields + Rows * cols
          THEN [status |-> "Err", rec |-> NoRecord]
        ELSE [status |-> "Ok", rec |-> ParseHeaderRecord(bytes, cols)]

\* ------------------------------------------------------------------------
\* Inputs of the model
\* ------------------------------------------------------------------------
Digit(d) == 48 + d

\* sample_pattern_data, with pattern_file_length len
SampleData(len) ==
    [ compiled_flag |-> TRUE,
      version |-> <<118, 49, 46, 50>>,
      source_combo_index |-> 3,
      pclk_source_indices |-> [i \in Channels |-> i + 1],
      vtime_reqd |-> [i \in Slots |-> <<86, 84, Digit(i)>>],
      cycle_time |-> [i \in Slots |-> <<67, 84, Digit(i)>>],
      pulse_time |-> [i \in Slots |-> <<80, 84, Digit(i)>>],
      clk_sources |-> [j \in 1..ClkLen |->
                         IF j = 1 THEN << >>
                         ELSE <<67, 76, 75, Digit((j - 1) \div 10), Digit((j - 1) % 10)>>],
      start_addrs |-> [i \in Channels |-> 10],
      end_addrs |-> [i \in Channels |-> 20],
      loop_counts |-> [i \in Channels |-> 2],
      pattern_file_length |-> len,
      pattern_data |-> [r \in 1..Rows |->
                          [c \in 1..(len + ExtraCols) |-> ((r - 1) + (c - 1)) % 256]] ]

\* texts a caller puts in a record: "", "AB ", "A B", "ABCDEFGHIJ",
\* "ABCDEFGHIJK", "ABCDEFGHI JK", "ABCDEFGHI" + U+00E9, "AB" + tab,
\* "ABCDEFGHI" + tab + "K", U+00E9 + "1", "12"
Texts ==
    { << >>,
      <<65, 66, 32>>,
      <<65, 32, 66>>,
      <<65, 66, 67, 68, 69, 70, 71, 72, 73, 74>>,
      <<65, 66, 67, 68, 69, 70, 71, 72, 73, 74, 75>>,
      <<65, 66, 67, 68, 69, 70, 71, 72, 73, 32, 74, 75>>,
      <<65, 66, 67, 68, 69, 70, 71, 72, 73, 195, 169>>,
      <<65, 66, 9>>,
      <<65, 66, 67, 68, 69, 70, 71, 72, 73, 9, 75>>,
      <<195, 169, 49>>,
      <<49, 50>> }

\* versions: "", "v1.2.3-beta", "v1.2", "v1.23", "v1.2.3", "1 b", "v1 ", " v"
Versions ==
    { << >>,
      <<118, 49, 46, 50, 46, 51, 45, 98, 101, 116, 97>>,
      <<118, 49, 46, 50>>,
      <<118, 49, 46, 50, 51>>,
      <<118, 49, 46, 50, 46, 51>>,
      <<49, 32, 98>>,
      <<118, 49, 32>>,
      <<32, 118>> }

Ints == {0, 7, -1, 123456789, 1234567890, -123456789, -1000000000, I32Max, I32Min}

\* values of pattern_file_length and shapes of pattern_data a caller builds
Lengths == {-21, -20, -19, 0, MaxLen + 1, I32Max}
RowCounts == {Rows - 1, Rows, Rows + 1}
ColCounts == {0, 1, ExtraCols - 1, ExtraCols, ExtraCols + 1, MaxLen + 1 + ExtraCols}

IntArrays == {"pclk_source_indices", "start_addrs", "end_addrs", "loop_counts"}
TextArrays == {"vtime_reqd", "cycle_time", "pulse_time"}

\* contents of a 10-byte field of a file that no encoder wrote: "", "abc", "+5",
\* "  7", "007", "-0", "2147483648", "2147483647", "-21", "-20", "2",
\* "7" + tab, an invalid byte, ten NUL bytes, a field whose last character is
\* U+00E9, and four invalid bytes ahead of "A"; a short one is followed by spaces
RawField(s) == s \o Spaces(FieldLen - Len(s))
Pokes ==
    { << >>,
      <<97, 98, 99>>,
      <<43, 53>>,
      <<32, 32, 55>>,
      <<48, 48, 55>>,
      <<45, 48>>,
      <<50, 49, 52, 55, 52, 56, 51, 54, 52, 56>>,
      <<50, 49, 52, 55, 52, 56, 51, 54, 52, 55>>,
      <<45, 50, 49>>,
      <<45, 50, 48>>,
      <<50>>,
      <<55, 9>>,
      <<255, 49>>,
      <<0, 0, 0, 0, 0, 0, 0, 0, 0, 0>>,
      <<49, 50, 51, 52, 53, 54, 55, 56, 195, 169>>,
      <<255, 255, 255, 255, 65>> }

\* contents of the header field of such a file: "TRUE x", "tRuE", "Truex 1",
\* "true", "false v", " True", "1 v1.2.3"
HeaderPokes ==
    { <<84, 82, 85, 69, 32, 120>>,
      <<116, 82, 117, 69>>,
      <<84, 114, 117, 101, 120, 32, 49>>,
      <<116, 114, 117, 101>>,
      <<102, 97, 108, 115, 101, 32, 118>>,
      <<32, 84, 114, 117, 101>>,
      <<49, 32, 118, 49, 46, 50, 46, 51>> }

PokeBytes == {32, 255}

\* the lengths a file is cut to: around every field boundary of the header,
\* and around every column boundary of the matrix
Cuts(n) ==
    {m \in 0..(n - 1) :
        IF m <= FieldLen * HeaderFields
          THEN m % FieldLen \in {0, 1, FieldLen - 1}
          ELSE (m - FieldLen * HeaderFields) % Rows \in {0, 1, Rows - 1}}

\* the matrix bytes PokeByte changes: the first and the last column
PokedCells(n) ==
    {j \in (FieldLen * HeaderFields + 1)..n :
        j <= FieldLen * HeaderFields + Rows \/ j > n - Rows}

Tails == UNION {[1..n -> {0, 255}] : n \in 1..MaxTail}

\* ------------------------------------------------------------------------
\* State
\* ------------------------------------------------------------------------
VARIABLES
    data,     \* the PatternFileData the caller holds (sample, or built from JSON)
    file,     \* the pattern file's path: [exists, bytes]
    pc,       \* "start", "built", "written", "tampered", "decoded", "readback",
              \* "main"
    wres,     \* how the write ended: "none", "Ok", "Panic", "CliError"
    pres,     \* what parse_pcf_file returned: [status, rec]
    calls,    \* number of calls of write_pcf_file
    output,   \* the path the round-trip program writes to: [exists, bytes]
    reloaded  \* what its second parse_pcf_file returned: [status, rec]

vars == <<data, file, pc, wres, pres, calls, output, reloaded>>

NoFile == [exists |-> FALSE, bytes |-> << >>]
OnDisk(bytes) == [exists |-> TRUE, bytes |-> bytes]
NotParsed == [status |-> "none", rec |-> NoRecord]

\* a sample record in memory; the path holds nothing, or a pattern file
Init ==
    /\ \E len \in 0..MaxLen :
        /\ data = SampleData(len)
        /\ file \in {NoFile, OnDisk(write_pcf_file(SampleData(len), TRUE).issued)}
    /\ pc = "start"
    /\ wres = "none"
    /\ pres = NotParsed
    /\ calls = 0
    /\ output = NoFile
    /\ reloaded = NotParsed

\* ------------------------------------------------------------------------
\* The caller builds the record (serde_json::from_str of any document)
\* ------------------------------------------------------------------------
Built(d) ==
    /\ pc = "start"
    /\ data' = d
    /\ pc' = "built"
    /\ UNCHANGED <<file, wres, pres, calls, output, reloaded>>

SetHeader == \E f \in BOOLEAN, v \in Versions :
    Built([data EXCEPT !.compiled_flag = f, !.version = v])

SetText == \E a \in TextArrays, i \in Slots, t \in Texts :
    Built([data EXCEPT ![a][i] = t])

SetClkSource == \E i \in {0, 1, ClkLen - 1}, t \in Texts :
    Built([data EXCEPT !.clk_sources[i + 1] = t])

ResizeClkSources == \E n \in {0, ClkLen - 1, ClkLen + 1} :
    Built([data EXCEPT !.clk_sources =
        [j \in 1..n |-> IF j <= ClkLen THEN data.clk_sources[j] ELSE <<88>>]])

SetInt == \E a \in IntArrays, i \in {0, 7}, v \in Ints :
    Built([data EXCEPT ![a][i] = v])

SetComboIndex == \E v \in Ints :
    Built([data EXCEPT !.source_combo_index = v])

SetPattern == \E len \in Lengths, rows \in RowCounts, cols \in ColCounts :
    Built([data EXCEPT !.pattern_file_length = len,
                       !.pattern_data = [r \in 1..rows |-> [c \in 1..cols |-> (r + 2 * c) % 256]]])

\* one row shorter than the others
ShortenRow == \E r \in 1..Rows :
    /\ pc = "start"
    /\ Len(data.pattern_data[r]) > 0
    /\ Built([data EXCEPT !.pattern_data[r] = SubSeq(@, 1, Len(@) - 1)])

\* ------------------------------------------------------------------------
\* write_pcf_file and the pcf tool's write command
\* ------------------------------------------------------------------------
\* (FileAfterKept: FileAfter with the path left as it was when the call panics)
\* File::create empties the path; the BufWriter (no file of the model fills
\* its buffer) hands the bytes issued to the file at flush, or when it is
\* dropped as a panic unwinds; a build that aborts on panic drops nothing.
\* The two builds differ only when the addition overflows.
FileAfterKept(r, unwind) ==
    IF r.status = "Ok" THEN OnDisk(r.issued) ELSE file

FileAfter(r, unwind) ==
    IF r.status = "Ok" \/ unwind THEN OnDisk(r.issued) ELSE OnDisk(<< >>)

Encode(next) == \E checks \in (IF Overflows(data) THEN BOOLEAN ELSE {TRUE}) :
    \E r \in {write_pcf_file(data, checks)} :
        /\ \E unwind \in BOOLEAN : file' = FileAfter(r, unwind)
        /\ wres' = r.status
        /\ calls' = calls + 1
        /\ pc' = next
        /\ UNCHANGED <<data, pres, output, reloaded>>

WritePcfFile ==
    /\ pc \in {"start", "built"}
    /\ Encode("written")

\* Command::Write without the check of clk_sources.len()
CliWriteUnchecked ==
    /\ pc \in {"start", "built"}
    /\ Encode("written")

\* Command::Write, after the JSON document is deserialized into data
CliWrite ==
    /\ pc \in {"start", "built"}
    /\ IF Len(data.clk_sources) # ClkLen
         THEN /\ wres' = "CliError"
              /\ pc' = "written"
              /\ UNCHANGED <<data, file, pres, calls, output, reloaded>>
         ELSE Encode("written")

\* ------------------------------------------------------------------------
\* Files that no encoder wrote: one change to the file on disk
\* ------------------------------------------------------------------------
Tampered(bytes) ==
    /\ pc = "start"
    /\ file.exists
    /\ file' = OnDisk(bytes)
    /\ pc' = "tampered"
    /\ UNCHANGED <<data, wres, pres, calls, output, reloaded>>

WithField(bytes, k, raw) ==
    [j \in 1..Len(bytes) |->
        IF j > FieldLen * k /\ j <= FieldLen * (k + 1)
          THEN RawField(raw)[j - FieldLen * k] ELSE bytes[j]]

PokeField == \E k \in 0..(HeaderFields - 1), raw \in Pokes :
    Tampered(WithField(file.bytes, k, raw))

PokeHeader == \E raw \in HeaderPokes :
    Tampered(WithField(file.bytes, 0, raw))

PokeByte == \E j \in PokedCells(Len(file.bytes)), x \in PokeBytes :
    /\ file.bytes[j] # x
    /\ Tampered([file.bytes EXCEPT ![j] = x])

Truncate == \E n \in Cuts(Len(file.bytes)) :
    Tampered(SubSeq(file.bytes, 1, n))

AppendTail == \E t \in Tails :
    Tampered(file.bytes \o t)

\* ------------------------------------------------------------------------
\* parse_pcf_file
\* ------------------------------------------------------------------------
ParsePcfFile ==
    /\ pc \in {"start", "tampered", "written"}
    /\ pres' = parse_pcf_file(file)
    /\ pc' = IF pc = "written" THEN "readback" ELSE "decoded"
    /\ UNCHANGED <<data, file, wres, calls, output, reloaded>>

\* ------------------------------------------------------------------------
\* main: parse the input, write what was parsed, parse what was written
\* ------------------------------------------------------------------------
Main ==
    /\ pc \in {"start", "tampered"}
    /\ pc' = "main"
    /\ data' = data
    /\ file' = file
    /\ pres' = parse_pcf_file(file)
    /\ IF pres'.status # "Ok"
         THEN UNCHANGED <<wres, calls, output, reloaded>>
         ELSE \E checks \in (IF Overflows(pres'.rec) THEN BOOLEAN ELSE {TRUE}) :
              \E r \in {write_pcf_file(pres'.rec, checks)} :
                /\ \E unwind \in BOOLEAN : output' = FileAfter(r, unwind)
                /\ wres' = r.status
                /\ calls' = calls + 1
                /\ reloaded' = IF r.status = "Ok"
                                 THEN parse_pcf_file(output')
                                 ELSE NotParsed

Next ==
    \/ SetHeader
    \/ SetText
    \/ SetClkSource
    \/ ResizeClkSources
    \/ SetInt
    \/ SetComboIndex
    \/ SetPattern
    \/ ShortenRow
    \/ WritePcfFile
    \/ CliWrite
    \/ PokeField
    \/ PokeHeader
    \/ PokeByte
    \/ Truncate
    \/ AppendTail
    \/ ParsePcfFile
    \/ Main

Spec == Init /\ [][Next]_vars

\* ------------------------------------------------------------------------
\* Vocabulary of the properties
\* ------------------------------------------------------------------------
\* the ten bytes of the file at offset off (0-based)
BytesAt(b, off) == SubSeq(b, off + 1, off + 10)

\* a value left-justified in ten bytes, space-padded, cut when longer
Padded(v) == [j \in 1..10 |-> IF j <= Len(v) THEN v[j] ELSE 32]

Decimal(v) == Padded(I32ToString(v))

\* a record was encoded by write_pcf_file and the file it wrote decoded
EncodedAndDecoded == pc = "readback" /\ calls = 1 /\ wres = "Ok"

TextAtMost10(d) ==
    /\ Len(d.version) <= 10
    /\ \A a \in TextArrays, i \in Slots : Len(d[a][i]) <= 10
    /\ \A j \in 1..Len(d.clk_sources) : Len(d.clk_sources[j]) <= 10

NoTrailingWhitespace(v) == TrailingWhitespace(v) = 0

DecimalFits(v) == Len(I32ToString(v)) <= 10

ShapeMatches(d) ==
    /\ d.pattern_file_length <= I32Max - 20
    /\ Len(d.pattern_data) = 18
    /\ \A r \in 1..Len(d.pattern_data) :
          Len(d.pattern_data[r]) = d.pattern_file_length + 20

RoundTrippable(d) ==
    /\ TextAtMost10(d)
    /\ Len(d.clk_sources) = 65
    /\ Len(header(d)) <= 10
    /\ NoTrailingWhitespace(d.version)
    /\ \A a \in TextArrays, i \in Slots : NoTrailingWhitespace(d[a][i])
    /\ \A j \in 1..Len(d.clk_sources) : NoTrailingWhitespace(d.clk_sources[j])
    /\ d.clk_sources[1] = << >>
    /\ DecimalFits(d.source_combo_index)
    /\ DecimalFits(d.pattern_file_length)
    /\ \A a \in IntArrays, i \in Channels : DecimalFits(d[a][i])
    /\ ShapeMatches(d)

\* ------------------------------------------------------------------------
\* C1
\* ------------------------------------------------------------------------
\* C1 as claimed: a record whose text fields are at most 10 bytes and whose
\* clk_sources has 65 entries is equal to the record decoded from the file
\* write_pcf_file wrote for it.
C1_RoundTripAsClaimed ==
    (EncodedAndDecoded /\ TextAtMost10(data) /\ Len(data.clk_sources) = 65)
        => (pres.status = "Ok" /\ pres.rec = data)

\* C1, amended: the round trip returns an equal record when moreover the
\* header text "<True|False> <version>" is at most 10 bytes, no text value
\* ends in white space, clk_sources[0] is empty, the decimal text of every
\* integer is at most 10 bytes, and pattern_data is 18 rows of
\* pattern_file_length + 20 columns.
C1_RoundTrip ==
    (EncodedAndDecoded /\ RoundTrippable(data))
        => (pres.status = "Ok" /\ pres.rec = data)

C1_Witness ==
    /\ EncodedAndDecoded
    /\ RoundTrippable(data)
    /\ \E i \in Slots : Len(data.cycle_time[i]) = 10
    /\ pres.rec = data

\* ------------------------------------------------------------------------
\* C2
\* ------------------------------------------------------------------------
\* C2: a file write_pcf_file wrote successfully is 1260 + 18 *
\* (pattern_file_length + 20) bytes long and holds every fixed field in ten
\* bytes, left-justified, space-padded and cut to its first ten bytes, at the
\* offset of the layout table, and matrix cell [row][col] at 1260 + 18*col + row.
C2_Layout ==
    (pc \in {"written", "readback"} /\ calls = 1 /\ wres = "Ok") =>
        LET b == file.bytes
            d == data
        IN  /\ Len(b) = 1260 + 18 * (d.pattern_file_length + 20)
            /\ BytesAt(b, 0) =
                 Padded((IF d.compiled_flag THEN StrTrue ELSE StrFalse) \o <<32>> \o d.version)
            /\ BytesAt(b, 10) = Decimal(d.source_combo_index)
            /\ \A i \in 0..7 : BytesAt(b, 20 + 10 * i) = Decimal(d.pclk_source_indices[i])
            /\ BytesAt(b, 100) = Padded(d.vtime_reqd[8])
            /\ BytesAt(b, 190) = Padded(d.cycle_time[8])
            /\ BytesAt(b, 280) = Padded(d.pulse_time[8])
            /\ \A i \in 0..7 :
                  /\ BytesAt(b, 110 + 10 * i) = Padded(d.vtime_reqd[i])
                  /\ BytesAt(b, 200 + 10 * i) = Padded(d.cycle_time[i])
                  /\ BytesAt(b, 290 + 10 * i) = Padded(d.pulse_time[i])
            /\ \A k \in 1..64 : BytesAt(b, 370 + 10 * (k - 1)) = Padded(d.clk_sources[k + 1])
            /\ \A i \in 0..7 :
                  /\ BytesAt(b, 1010 + 30 * i) = Decimal(d.start_addrs[i])
                  /\ BytesAt(b, 1020 + 30 * i) = Decimal(d.end_addrs[i])
                  /\ BytesAt(b, 1030 + 30 * i) = Decimal(d.loop_counts[i])
            /\ BytesAt(b, 1250) = Decimal(d.pattern_file_length)
            /\ \A row \in 0..17, col \in 0..(d.pattern_file_length + 19) :
                  b[1260 + 18 * col + row + 1] = d.pattern_data[row + 1][col + 1]

\* a written file one of whose text values was cut to ten bytes
C2_Witness ==
    /\ pc = "written" /\ calls = 1 /\ wres = "Ok"
    /\ \E i \in Slots : Len(data.cycle_time[i]) > 10
    /\ Len(file.bytes) >= 1260 + 18 * 20

\* ------------------------------------------------------------------------
\* C3
\* ------------------------------------------------------------------------
TextBase(a) == IF a = "vtime_reqd" THEN 100 ELSE IF a = "cycle_time" THEN 190 ELSE 280

Distinct9(arr) == \A i \in Slots, j \in Slots : i # j => arr[i] # arr[j]

Exact(v) == Len(v) <= 10 /\ NoTrailingWhitespace(v)

\* C3: for vtime_reqd, cycle_time and pulse_time the file holds slot 8 first
\* (at 100, 190, 280) and then slots 0..7, and nine distinct values of one of
\* these arrays (each one a value ten bytes hold exactly) are decoded into
\* the slots they were encoded from.
C3_SlotOrder ==
    EncodedAndDecoded =>
        /\ pres.status = "Ok"
        /\ \A a \in TextArrays :
              /\ BytesAt(file.bytes, TextBase(a)) = Padded(data[a][8])
              /\ \A i \in 0..7 :
                    BytesAt(file.bytes, TextBase(a) + 10 * (i + 1)) = Padded(data[a][i])
              /\ (Distinct9(data[a]) /\ \A i \in Slots : Exact(data[a][i]))
                    => \A i \in Slots : pres.rec[a][i] = data[a][i]

\* nine distinct values, slot 8 set by the caller, decoded
C3_Witness ==
    /\ EncodedAndDecoded
    /\ \E a \in TextArrays :
          /\ Distinct9(data[a])
          /\ \A i \in Slots : Exact(data[a][i])
          /\ Len(data[a][8]) = 10
          /\ pres.rec[a][8] = data[a][8]

\* ------------------------------------------------------------------------
\* C4
\* ------------------------------------------------------------------------
RECURSIVE TrimSpaces(_)
TrimSpaces(v) ==
    IF v # << >> /\ v[Len(v)] = 32 THEN TrimSpaces(SubSeq(v, 1, Len(v) - 1)) ELSE v

\* the values of the fixed text fields, each with what it was decoded to
SlotTexts ==
    {<<data[a][i], pres.rec[a][i]>> : a \in TextArrays, i \in Slots}
        \cup {<<data.clk_sources[j], pres.rec.clk_sources[j]>> : j \in 2..65}

\* C4 as claimed: a text value longer than 10 bytes is decoded to its first
\* 10 bytes with the trailing spaces trimmed, and not to itself.
C4_TruncationAsClaimed ==
    (EncodedAndDecoded /\ pres.status = "Ok") =>
        \A p \in SlotTexts \cup {<<data.version, pres.rec.version>>} :
            Len(p[1]) > 10 =>
                (p[2] = TrimSpaces(SubSeq(p[1], 1, 10)) /\ p[2] # p[1])

\* C4, amended: a vtime_reqd, cycle_time, pulse_time or clk_sources[1..64]
\* value longer than 10 bytes whose first 10 bytes are whole characters is
\* decoded to its first 10 bytes with the trailing white space trimmed, and
\* not to itself.
C4_Truncation ==
    (EncodedAndDecoded /\ pres.status = "Ok") =>
        \A p \in SlotTexts :
            (Len(p[1]) > 10 /\ IsUtf8(SubSeq(p[1], 1, 10))) =>
                (p[2] = TrimEnd(SubSeq(p[1], 1, 10)) /\ p[2] # p[1])

\* a value longer than 10 bytes decoded to nine: cut, then trimmed
C4_Witness ==
    /\ EncodedAndDecoded
    /\ pres.status = "Ok"
    /\ \E p \in SlotTexts :
          Len(p[1]) > 10 /\ IsUtf8(SubSeq(p[1], 1, 10)) /\ Len(p[2]) = 9

\* ------------------------------------------------------------------------
\* C5
\* ------------------------------------------------------------------------
\* the 34 numeric fields, by their index among the 10-byte fields
NumericFields == {1} \cup (2..9) \cup (101..124) \cup {125}

FieldBytes(b, k) == SubSeq(b, 10 * k + 1, 10 * k + 10)

\* the ten bytes hold an integer as decode takes it
IsInteger(raw) == ParseI32(TrimEnd(FromUtf8Lossy(raw))).ok

\* b is the file a with nothing but field k changed
OnlyFieldDiffers(b, a, k) ==
    /\ Len(b) = Len(a)
    /\ \A j \in 1..Len(a) : (j <= 10 * k \/ j > 10 * k + 10) => b[j] = a[j]

\* the record d with numeric field k zero (and, for pattern_file_length, the
\* 20 columns a length of 0 stands for)
Zeroed(d, k) ==
    IF k = 1 THEN [d EXCEPT !.source_combo_index = 0]
    ELSE IF k <= 9 THEN [d EXCEPT !.pclk_source_indices[k - 2] = 0]
    ELSE IF k = 125 THEN
        [d EXCEPT !.pattern_file_length = 0,
                  !.pattern_data = [r \in 1..18 |-> SubSeq(d.pattern_data[r], 1, 20)]]
    ELSE IF (k - 101) % 3 = 0 THEN [d EXCEPT !.start_addrs[(k - 101) \div 3] = 0]
    ELSE IF (k - 101) % 3 = 1 THEN [d EXCEPT !.end_addrs[(k - 101) \div 3] = 0]
    ELSE [d EXCEPT !.loop_counts[(k - 101) \div 3] = 0]

\* C5: when one of the 34 numeric fields of a pattern file holds no integer,
\* decode returns a record with that field 0 and every other field as in the
\* file: no error, and the fields that follow are read from their own offsets.
C5_MalformedNumeric ==
    (pc = "decoded" /\ file.exists) =>
        \A k \in NumericFields :
            ( /\ Len(file.bytes) >= FieldLen * HeaderFields
              /\ ~IsInteger(FieldBytes(file.bytes, k))
              /\ OnlyFieldDiffers(file.bytes, write_pcf_file(data, TRUE).issued, k) )
                => (pres.status = "Ok" /\ pres.rec = Zeroed(data, k))

\* source_combo_index holds no integer: decoded as 0, the fields after it intact
C5_Witness ==
    /\ pc = "decoded"
    /\ Len(file.bytes) >= 1260
    /\ ~IsInteger(FieldBytes(file.bytes, 1))
    /\ data.source_combo_index # 0
    /\ pres.status = "Ok"
    /\ pres.rec.source_combo_index = 0
    /\ pres.rec.pclk_source_indices = data.pclk_source_indices
    /\ pres.rec.pattern_data = data.pattern_data

\* ------------------------------------------------------------------------
\* C6
\* ------------------------------------------------------------------------
\* the source ends before the header, or before the matrix that the decoded
\* pattern_file_length L calls for: Len(b) < 1260 + 18 * (L + 20)
EndsEarly(b) ==
    \/ Len(b) < 1260
    \/ ParseOrZero(Field(b, 125)) > ((Len(b) - 1260) \div 18) - 20

\* C6: decoding a source that ends before a fixed field or a matrix byte can
\* be read returns an I/O error.
C6_TruncatedSource ==
    (pc \in {"decoded", "readback"} /\ file.exists /\ EndsEarly(file.bytes))
        => pres.status = "Err"

\* ------------------------------------------------------------------------
\* C7
\* ------------------------------------------------------------------------
\* C7: a decoded record has 65 clk_sources of which the first is empty, and
\* the file write_pcf_file writes is the one it writes for the same record
\* with any other clk_sources[0].
C7_ClkSourcesIndexBase ==
    /\ pres.status = "Ok" =>
          (Len(pres.rec.clk_sources) = 65 /\ pres.rec.clk_sources[1] = << >>)
    /\ (pc \in {"written", "readback"} /\ calls = 1 /\ wres = "Ok") =>
          \A t \in {<< >>, <<90, 90>>} :
              file.bytes = write_pcf_file([data EXCEPT !.clk_sources[1] = t], TRUE).issued

\* a record whose clk_sources[0] is not empty, written and decoded
C7_Witness ==
    /\ EncodedAndDecoded
    /\ data.clk_sources[1] # << >>
    /\ pres.status = "Ok"
    /\ pres.rec.clk_sources[1] = << >>
    /\ pres.rec.clk_sources[2] = data.clk_sources[2]

\* ------------------------------------------------------------------------
\* C8
\* ------------------------------------------------------------------------
\* C8: write_pcf_file on a record whose clk_sources has not 65 entries ends
\* in a panic and leaves no byte of a clk_sources field or of a later one.
C8_EncodePrecondition ==
    (pc \in {"written", "readback"} /\ calls = 1 /\ Len(data.clk_sources) # 65)
        => (wres = "Panic" /\ Len(file.bytes) <= 370)

\* 66 entries: the panic, with the 37 fields ahead of clk_sources written
C8_Witness ==
    /\ pc = "written"
    /\ calls = 1
    /\ Len(data.clk_sources) = 66
    /\ wres = "Panic"
    /\ Len(file.bytes) = 370

\* ------------------------------------------------------------------------
\* C9
\* ------------------------------------------------------------------------
\* C9: write_pcf_file on a record whose pattern_data is not 18 rows of
\* pattern_file_length + 20 columns returns an error.
C9_MatrixValidated ==
    (pc \in {"written", "readback"} /\ calls = 1 /\ Len(data.clk_sources) = 65
        /\ ~ShapeMatches(data))
        => wres = "Err"

\* ------------------------------------------------------------------------
\* C10
\* ------------------------------------------------------------------------
\* C10: the write command on a record whose clk_sources has not 65 entries
\* ends in its own error, without a call of write_pcf_file and with the
\* output path as it was.
C10_CliValidation ==
    [][(CliWrite /\ Len(data.clk_sources) # 65)
          => (wres' = "CliError" /\ calls' = calls /\ file' = file)]_vars

\* the command refused a record; the file that was at the path is intact
C10_Witness ==
    /\ wres = "CliError"
    /\ Len(data.clk_sources) # 65
    /\ calls = 0
    /\ file.exists
    /\ Len(file.bytes) >= 1260

\* ------------------------------------------------------------------------
\* C11
\* ------------------------------------------------------------------------
\* two ASCII characters that are equal, or the two cases of one letter
SameLetter(x, y) ==
    \/ x = y
    \/ x >= 65 /\ x <= 90 /\ y = x + 32
    \/ y >= 65 /\ y <= 90 /\ x = y + 32

\* the token is "true", in any mix of cases
IsTrueToken(t) ==
    /\ Len(t) = 4
    /\ \A i \in 1..4 : SameLetter(t[i], <<116, 114, 117, 101>>[i])

\* the text of the first ten bytes of the file, without its trailing white space
HeaderText == TrimEnd(FromUtf8Lossy(SubSeq(file.bytes, 1, 10)))

\* C11: compiled_flag is true exactly when the part of the trimmed header
\* ahead of its first space (all of it when it has no space) is "true" in any
\* mix of cases; version is what follows the first space, and empty when the
\* header has no space.
C11_HeaderDecoding ==
    (pc \in {"decoded", "readback", "main"} /\ pres.status = "Ok") =>
        LET h == HeaderText
            spaces == {i \in 1..Len(h) : h[i] = 32}
        IN  IF spaces = {}
              THEN /\ pres.rec.compiled_flag = IsTrueToken(h)
                   /\ pres.rec.version = << >>
              ELSE \E i \in spaces :
                     /\ \A j \in spaces : i <= j
                     /\ pres.rec.compiled_flag = IsTrueToken(SubSeq(h, 1, i - 1))
                     /\ pres.rec.version = SubSeq(h, i + 1, Len(h))

\* the header "TRUE x" of a file no encoder wrote: true, version "x"
C11_Witness ==
    /\ pc = "decoded"
    /\ pres.status = "Ok"
    /\ HeaderText = <<84, 82, 85, 69, 32, 120>>
    /\ pres.rec.compiled_flag
    /\ pres.rec.version = <<120>>

\* ------------------------------------------------------------------------
\* C12
\* ------------------------------------------------------------------------
\* the matrix of the record rec is the one the source b holds
MatrixOf(rec, b) ==
    /\ Len(rec.pattern_data) = 18
    /\ \A row \in 0..17 :
          /\ Len(rec.pattern_data[row + 1]) = rec.pattern_file_length + 20
          /\ \A col \in 0..(rec.pattern_file_length + 19) :
                rec.pattern_data[row + 1][col + 1] = b[1260 + 18 * col + row + 1]

\* C12: the pattern_data of every record parse_pcf_file returns has 18 rows
\* of pattern_file_length + 20 columns each, and its cell [row][col] is the
\* byte of the source at offset 1260 + 18*col + row.
C12_MatrixOnDecode ==
    /\ pres.status = "Ok" => MatrixOf(pres.rec, file.bytes)
    /\ reloaded.status = "Ok" => MatrixOf(reloaded.rec, output.bytes)

\* a file whose last matrix byte was changed to 255: the last cell of the
\* last row of the record is 255
C12_Witness ==
    /\ pc = "decoded"
    /\ pres.status = "Ok"
    /\ pres.rec.pattern_file_length + 20 > 0
    /\ data.pattern_data[18][data.pattern_file_length + 20] # 255
    /\ pres.rec.pattern_data[18][pres.rec.pattern_file_length + 20] = 255
    /\ file.bytes[Len(file.bytes)] = 255

\* ------------------------------------------------------------------------
\* C13
\* ------------------------------------------------------------------------
\* C13: decoding a source of at least 1260 + 18 * (L + 20) bytes, L being the
\* integer-or-zero value of its pattern_file_length field, returns a record,
\* whatever its fields hold.
C13_OnlyTruncationFatal ==
    (pc \in {"decoded", "readback", "main"} /\ file.exists /\ ~EndsEarly(file.bytes))
        => pres.status = "Ok"

\* ------------------------------------------------------------------------
\* C14
\* ------------------------------------------------------------------------
\* the round-trip program decoded its input
Redecoded == pc = "main" /\ pres.status = "Ok"

\* C14 as claimed: when the input is decoded, the decoded record is written
\* and the file written is decoded to a record equal to it.
C14_ReencodeAsClaimed ==
    Redecoded =>
        (wres = "Ok" /\ reloaded.status = "Ok" /\ reloaded.rec = pres.rec)

\* the text values of the record are at most 10 bytes each, and so is the
\* header text "<True|False> <version>" written for it
FitsItsFields(rec) == TextAtMost10(rec) /\ Len(header(rec)) <= 10

\* C14, amended: the same, for an input whose decoded text values are at
\* most 10 bytes each and whose decoded flag and version make a header text
\* "<True|False> <version>" of at most 10 bytes.
C14_Reencode ==
    (Redecoded /\ FitsItsFields(pres.rec)) =>
        (wres = "Ok" /\ reloaded.status = "Ok" /\ reloaded.rec = pres.rec)

\* an input no encoder wrote, decoded, written as another file and decoded
\* to an equal record
C14_Witness ==
    /\ Redecoded
    /\ FitsItsFields(pres.rec)
    /\ wres = "Ok"
    /\ output.bytes # file.bytes
    /\ Len(output.bytes) >= 1260
    /\ reloaded.rec = pres.rec

\* ------------------------------------------------------------------------
\* C15
\* ------------------------------------------------------------------------
\* the 34 integer fields: <<offset in the file, value encoded, value decoded>>
IntFields ==
    {<<10, data.source_combo_index, pres.rec.source_combo_index>>,
     <<1250, data.pattern_file_length, pres.rec.pattern_file_length>>}
    \cup {<<20 + 10 * i, data.pclk_source_indices[i], pres.rec.pclk_source_indices[i]>> :
            i \in Channels}
    \cup {<<1010 + 30 * i, data.start_addrs[i], pres.rec.start_addrs[i]>> : i \in Channels}
    \cup {<<1020 + 30 * i, data.end_addrs[i], pres.rec.end_addrs[i]>> : i \in Channels}
    \cup {<<1030 + 30 * i, data.loop_counts[i], pres.rec.loop_counts[i]>> : i \in Channels}

\* t is the decimal text of v: digits, no leading zero, a '-' ahead of them
\* exactly when v is negative
IsCanonical(t, v) ==
    LET digits == IF v < 0 THEN Tail(t) ELSE t
    IN  /\ t # << >>
        /\ v < 0 => t[1] = 45
        /\ digits # << >>
        /\ \A i \in 1..Len(digits) : digits[i] >= 48 /\ digits[i] <= 57
        /\ digits[1] = 48 => digits = <<48>>
        /\ ParseI32(t) = [ok |-> TRUE, val |-> v]

\* the ten bytes f hold the decimal text of v and then spaces
HoldsDecimal(f, v) ==
    \E n \in 1..10 :
        /\ IsCanonical(SubSeq(f, 1, n), v)
        /\ \A j \in (n + 1)..10 : f[j] = 32

\* C15 as claimed: the ten bytes of every integer field of a written file
\* hold the decimal text of the field's value, space-padded, and the value
\* decoded from them is that value.
C15_IntegersAsClaimed ==
    EncodedAndDecoded =>
        /\ pres.status = "Ok"
        /\ \A p \in IntFields :
              HoldsDecimal(BytesAt(file.bytes, p[1]), p[2]) /\ p[3] = p[2]

\* C15, amended: the same for every value from -999999999 to 2147483647,
\* the values whose decimal text is at most 10 bytes.
C15_Integers ==
    EncodedAndDecoded =>
        /\ pres.status = "Ok"
        /\ \A p \in IntFields :
              p[2] >= -999999999 =>
                  (HoldsDecimal(BytesAt(file.bytes, p[1]), p[2]) /\ p[3] = p[2])

\* 2147483647 and -123456789 fill their ten bytes and are decoded
C15_Witness ==
    /\ EncodedAndDecoded
    /\ pres.status = "Ok"
    /\ \E p \in IntFields :
          /\ p[2] \in {I32Max, -123456789}
          /\ p[3] = p[2]
          /\ BytesAt(file.bytes, p[1])[10] # 32

\* ------------------------------------------------------------------------
\* C16
\* ------------------------------------------------------------------------
\* C16: a call of write_pcf_file on a record whose clk_sources has not 65
\* entries panics after the path was created or emptied and the 370 bytes
\* of the fields ahead of clk_sources were handed to the writer: the path
\* then holds those 370 bytes or nothing, and not what it held before.
C16_FailedEncodeClobbers ==
    [][(WritePcfFile /\ Len(data.clk_sources) # 65) =>
          /\ wres' = "Panic"
          /\ file'.exists
          /\ file' # file
          /\ \/ file'.bytes = << >>
             \/ /\ Len(file'.bytes) = 370
                /\ BytesAt(file'.bytes, 0) = Padded(header(data))
                /\ BytesAt(file'.bytes, 360) = Padded(data.pulse_time[7])]_vars

\* the call panicked on 64 entries in a build that aborts: the path is empty
C16_Witness ==
    /\ pc = "written"
    /\ calls = 1
    /\ wres = "Panic"
    /\ Len(data.clk_sources) = 64
    /\ file.exists
    /\ file.bytes = << >>

\* ------------------------------------------------------------------------
\* C17
\* ------------------------------------------------------------------------
\* C17: a source that goes on after the 1260 + 18 * (pattern_file_length +
\* 20) bytes of the record decoded from it is decoded as those bytes alone
\* are; and a pattern file with bytes added at its end is decoded, without
\* an error, to the record of the file without them.
C17_TrailingBytesIgnored ==
    (pc \in {"decoded", "main"} /\ file.exists) =>
        /\ pres.status = "Ok" =>
              LET n == 1260 + 18 * (pres.rec.pattern_file_length + 20)
              IN  /\ Len(file.bytes) >= n
                  /\ Len(file.bytes) > n =>
                        parse_pcf_file(OnDisk(SubSeq(file.bytes, 1, n))) = pres
        /\ LET n == 1260 + 18 * (data.pattern_file_length + 20)
           IN  ( /\ Len(file.bytes) > n
                 /\ SubSeq(file.bytes, 1, n) = write_pcf_file(data, TRUE).issued )
                   => (pres.status = "Ok" /\ pres.rec = data)

\* two bytes after the matrix of the sample's file: the sample is decoded
C17_Witness ==
    /\ pc = "decoded"
    /\ Len(file.bytes) = 1260 + 18 * (data.pattern_file_length + 20) + 2
    /\ file.bytes[Len(file.bytes)] = 255
    /\ pres.status = "Ok"
    /\ pres.rec = data

====
